---- MODULE Spec2Model ----
(***************************************************************************)
(* Model of rust-http-server: the ThreadPool of src/lib.rs (channel, the   *)
(* worker threads, Drop) driven by the accept loop and the connection      *)
(* handlers of src/bin/main.rs.                                            *)
(***************************************************************************)
EXTENDS Integers, Sequences, FiniteSets, TLC

VARIABLES
    mainPc,      \* where the main thread is (main, ThreadPool::new, Drop)
    size,        \* the argument of ThreadPool::new
    chan,        \* TRUE once mpsc::channel() has been created
    queue,       \* the messages in the channel, oldest first
    workers,     \* ThreadPool.workers: worker id -> the state of its thread
    lock,        \* the holder of the Mutex around the Receiver, or NoOne
    sendIdx,     \* Drop: iterations of the Terminate loop done
    termSent,    \* Drop: Terminate messages the channel accepted
    joinIdx,     \* Drop: iterations of the join loop done
    joinErrs,    \* Drop: workers whose join returned Err
    jobs,        \* job id -> what has happened to the closure given to execute
    acceptErrs,  \* accept failures seen by the listener
    liveAtDrop   \* the workers still in their loop when Drop began

vars == <<mainPc, size, chan, queue, workers, lock, sendIdx, termSent,
          joinIdx, joinErrs, jobs, acceptErrs, liveAtDrop>>

----------------------------------------------------------------------------
(* Bounds of the model *)

MaxSize == 2
MaxJobs == 3

NoOne == -1
Caller == -2
NoJob == 0

----------------------------------------------------------------------------
(* Messages, src/lib.rs *)

NewJob(j) == [type |-> "NewJob", job |-> j]
Terminate == [type |-> "Terminate", job |-> NoJob]

----------------------------------------------------------------------------
(* Requests and responses, src/bin/main.rs *)

Methods == {"GET", "POST", "PUT", "DELETE", "PATCH"}
Resources == {"movies", "actors", "reviews"}
ApiPath(res) ==
    CASE res = "movies" -> "/api/movies"
      [] res = "actors" -> "/api/actors"
      [] res = "reviews" -> "/api/reviews"
Paths == {ApiPath(res) : res \in Resources} \cup {"/"}

\* The text of a request after its first line, as tokens: the blank-line
\* separator, the braces of a JSON object, a member "id" with a string value,
\* the members of the addressed resource, and text that is not JSON.
Separator == "\r\n\r\n"
Tokens == {Separator, "{", "}", "id", "fields", "junk"}

\* str::split: the pieces of text between the occurrences of pat.
RECURSIVE split(_, _)
split(text, pat) ==
    IF text = <<>> THEN << <<>> >>
    ELSE LET rest == split(Tail(text), pat)
         IN IF Head(text) = pat
            THEN << <<>> >> \o rest
            ELSE << <<Head(text)>> \o rest[1] >> \o Tail(rest)

\* Iterator::nth, an Option.
None == [some |-> FALSE, val |-> <<>>]
Some(v) == [some |-> TRUE, val |-> v]
nth(pieces, n) == IF Len(pieces) > n THEN Some(pieces[n + 1]) ELSE None

\* request.split("\r\n\r\n").nth(1) of the POST, PUT and DELETE handlers.
body_of(request) == nth(split(request.text, Separator), 1)

\* serde_json on the body: the separator is whitespace to it (the handlers
\* trim the text and drop its NUL bytes first).
Members(body) ==
    LET toks == SelectSeq(body.val, LAMBDA t : t # Separator)
    IN IF Len(toks) >= 2 /\ toks[1] = "{" /\ toks[Len(toks)] = "}"
       THEN SubSeq(toks, 2, Len(toks) - 1)
       ELSE <<"junk">>
HasSeparator(body) == body.some
ParsesAsValue(body) ==
    \A i \in 1..Len(Members(body)) : Members(body)[i] \in {"id", "fields"}
ParsesAsRecord(body) ==
    /\ ParsesAsValue(body)
    /\ \E i \in 1..Len(Members(body)) : Members(body)[i] = "fields"
HasStringId(body) ==
    /\ ParsesAsValue(body)
    /\ \E i \in 1..Len(Members(body)) : Members(body)[i] = "id"

\* The request texts of the model: without a separator, with one, and with
\* a second one inside or after the JSON text.
Texts ==
    { <<>>,
      <<Separator>>,
      <<Separator, "junk">>,
      <<Separator, "{", "}">>,
      <<Separator, "{", "id", "}">>,
      <<Separator, "{", "fields", "}">>,
      <<Separator, "{", "id", "fields", "}">>,
      <<Separator, "{", "id", Separator, "fields", "}">>,
      <<Separator, "{", "id", "}", Separator, "junk">> }

\* The first line of a request, as its whitespace-separated tokens.
RequestLines ==
    {<<>>}
    \cup {<<m>> : m \in Methods}
    \cup {<<m, p>> : m \in Methods, p \in Paths}
    \cup {<<m, p, "HTTP/1.1">> : m \in Methods, p \in Paths}

Requests == [line : RequestLines, text : Texts]

\* The requests the connections of the pool specification carry.
PoolRequests ==
    { [line |-> <<"POST", ApiPath("movies"), "HTTP/1.1">>,
       text |-> <<Separator, "{", "fields", "}">>],
      [line |-> <<>>, text |-> <<>>] }

NoRequest == [line |-> <<>>, text |-> <<"none">>]
NoResponse == [status |-> 0, contents |-> <<>>]

parse_request_line(request) ==
    IF Len(request.line) >= 2
    THEN <<request.line[1], request.line[2]>>
    ELSE <<"", "">>

Singular(res) ==
    CASE res = "movies" -> "Movie"
      [] res = "actors" -> "Actor"
      [] res = "reviews" -> "Review"

handle_400 == [status |-> 400, contents |-> <<"400 - Bad Request">>]
handle_404 == [status |-> 404, contents |-> <<"404 - Not Found">>]

\* The backend call a handler awaits for a body, "none" when it returns
\* without one.
get_call(res) == "get"
post_call(res, body) ==
    IF HasSeparator(body) /\ ParsesAsRecord(body) THEN "set" ELSE "none"
\* A PUT handler that does not require the "id" field.
put_call_any_value(res, body) ==
    IF ParsesAsValue(body) THEN "update" ELSE "none"

put_call(res, body) ==
    IF ParsesAsValue(body) /\ HasStringId(body) THEN "update" ELSE "none"
delete_call(res, body) ==
    IF ParsesAsValue(body) /\ HasStringId(body) THEN "delete" ELSE "none"

\* The response of a handler, given how its backend call resolved:
\* "Ok" (a value), "Null" (get: the collection is absent), "Err", or
\* "NoCall" when the handler made none.
\* A GET handler without the is_null() arm: null is rendered as it is.
handle_get_no_null(res, result) ==
    CASE result = "Null" -> [status |-> 200, contents |-> <<"null">>]
      [] result = "Ok" -> [status |-> 200, contents |-> <<"data of ", res>>]
      [] OTHER -> [status |-> 500, contents |-> <<"Failed to retrieve ", res>>]

handle_get(res, result) ==
    CASE result = "Null" -> [status |-> 200, contents |-> <<"[]">>]
      [] result = "Ok" -> [status |-> 200, contents |-> <<"data of ", res>>]
      [] OTHER -> [status |-> 500, contents |-> <<"Failed to retrieve ", res>>]

handle_post(res, body, result) ==
    IF post_call(res, body) = "set" /\ result = "Ok"
    THEN [status |-> 201, contents |-> <<Singular(res), " created">>]
    ELSE handle_400

handle_put(res, body, result) ==
    IF put_call(res, body) = "update" /\ result = "Ok"
    THEN [status |-> 200, contents |-> <<Singular(res), " updated">>]
    ELSE handle_400

handle_delete(res, body, result) ==
    IF delete_call(res, body) = "delete" /\ result = "Ok"
    THEN [status |-> 200, contents |-> <<Singular(res), " deleted">>]
    ELSE handle_400

\* The match of handle_connection: is (method, path) one of its twelve arms?
Routed(method, path) ==
    /\ method \in {"GET", "POST", "PUT", "DELETE"}
    /\ \E res \in Resources : path = ApiPath(res)

ResourceOf(path) == CHOOSE res \in Resources : path = ApiPath(res)

HandlerOf(method) ==
    CASE method = "GET" -> "handle_get"
      [] method = "POST" -> "handle_post"
      [] method = "PUT" -> "handle_put"
      [] method = "DELETE" -> "handle_delete"

\* A match whose GET arm takes any path.
RouteAnyGet(method, path) ==
    CASE Routed(method, path) -> <<HandlerOf(method), ResourceOf(path)>>
      [] ~Routed(method, path) /\ method = "GET" -> <<"handle_get", "movies">>
      [] OTHER -> <<"handle_404", "">>

\* The arm of the match of handle_connection that (method, path) takes: the
\* handler and the resource it is written for.
Route(method, path) ==
    IF Routed(method, path)
    THEN <<HandlerOf(method), ResourceOf(path)>>
    ELSE <<"handle_404", "">>

\* The backend call the routed handler awaits for a request.
BackendCall(request) ==
    LET mp == parse_request_line(request)
        method == mp[1]
        path == mp[2]
        h == Route(method, path)
    IN CASE h[1] = "handle_get" -> get_call(h[2])
         [] h[1] = "handle_post" -> post_call(h[2], body_of(request))
         [] h[1] = "handle_put" -> put_call(h[2], body_of(request))
         [] h[1] = "handle_delete" -> delete_call(h[2], body_of(request))
         [] OTHER -> "none"

\* The results a backend call can resolve to.
BackendResults(call) ==
    IF call = "get" THEN {"Ok", "Null", "Err"} ELSE {"Ok", "Err"}

\* The response handle_connection computes for a request.
Respond(request, result) ==
    LET mp == parse_request_line(request)
        method == mp[1]
        path == mp[2]
        h == Route(method, path)
    IN CASE h[1] = "handle_get" -> handle_get(h[2], result)
         [] h[1] = "handle_post" -> handle_post(h[2], body_of(request), result)
         [] h[1] = "handle_put" -> handle_put(h[2], body_of(request), result)
         [] h[1] = "handle_delete" -> handle_delete(h[2], body_of(request), result)
         [] OTHER -> handle_404

----------------------------------------------------------------------------
(* The state of the pool *)

WorkerIds == DOMAIN workers
JobIds == DOMAIN jobs
submitted == Len(jobs)
NumWorkers == Cardinality(WorkerIds)

\* A worker thread that has not left its loop.
Live(w) == workers[w].state \notin {"terminated", "panicked"}
LiveWorkers == {w \in WorkerIds : Live(w)}

\* The Receiver lives in an Arc held by ThreadPool::new until it returns and
\* by the closure of every worker thread until that thread ends.
ReceiverAlive ==
    /\ chan
    /\ \/ mainPc \in {"new_channel", "new_spawn"}
       \/ LiveWorkers # {}

NoHandler == <<"none", "">>

FreshWorker == [state |-> "idle", job |-> NoJob, request |-> NoRequest,
                handler |-> NoHandler, result |-> "none",
                response |-> NoResponse]

FreshJob(st) == [st |-> st, dequeued |-> 0, runs |-> 0, runner |-> NoOne,
                 written |-> 0, failed |-> "none"]

Init ==
    /\ mainPc = "new_assert"
    /\ size \in 0..MaxSize
    /\ chan = FALSE
    /\ queue = <<>>
    /\ workers = [w \in {} |-> FreshWorker]
    /\ lock = NoOne
    /\ sendIdx = 0
    /\ termSent = 0
    /\ joinIdx = 0
    /\ joinErrs = {}
    /\ jobs = <<>>
    /\ acceptErrs = 0
    /\ liveAtDrop = {}

----------------------------------------------------------------------------
(* ThreadPool::new *)

\* ThreadPool::new without its assertion.
NewAssertMissing ==
    /\ mainPc = "new_assert"
    /\ mainPc' = "new_channel"
    /\ UNCHANGED <<size, chan, queue, workers, lock, sendIdx, termSent,
                   joinIdx, joinErrs, jobs, acceptErrs,
                   liveAtDrop>>

\* assert!(size > 0)
NewAssert ==
    /\ mainPc = "new_assert"
    /\ mainPc' = IF size > 0 THEN "new_channel" ELSE "new_panicked"
    /\ UNCHANGED <<size, chan, queue, workers, lock, sendIdx, termSent,
                   joinIdx, joinErrs, jobs, acceptErrs,
                   liveAtDrop>>

\* let (sender, receiver) = mpsc::channel()
NewChannel ==
    /\ mainPc = "new_channel"
    /\ chan' = TRUE
    /\ mainPc' = "new_spawn"
    /\ UNCHANGED <<size, queue, workers, lock, sendIdx, termSent,
                   joinIdx, joinErrs, jobs, acceptErrs,
                   liveAtDrop>>

\* The loop written `for id in 0..=size`: one worker too many.
NewSpawnInclusive ==
    /\ mainPc = "new_spawn"
    /\ NumWorkers <= size
    /\ workers' = [w \in 0..NumWorkers |->
                      IF w = NumWorkers THEN FreshWorker ELSE workers[w]]
    /\ UNCHANGED <<mainPc, size, chan, queue, lock, sendIdx, termSent,
                   joinIdx, joinErrs, jobs, acceptErrs, liveAtDrop>>

\* One iteration of `for id in 0..size`: Worker::new(id, ..) spawns a thread.
NewSpawn ==
    /\ mainPc = "new_spawn"
    /\ NumWorkers < size
    /\ workers' = [w \in 0..NumWorkers |->
                      IF w = NumWorkers THEN FreshWorker ELSE workers[w]]
    /\ UNCHANGED <<mainPc, size, chan, queue, lock, sendIdx, termSent,
                   joinIdx, joinErrs, jobs, acceptErrs,
                   liveAtDrop>>

\* ThreadPool { workers, sender } is returned to main, which enters its loop.
NewReturn ==
    /\ mainPc = "new_spawn"
    /\ NumWorkers = size
    /\ mainPc' = "accept"
    /\ UNCHANGED <<size, chan, queue, workers, lock, sendIdx, termSent,
                   joinIdx, joinErrs, jobs, acceptErrs,
                   liveAtDrop>>

----------------------------------------------------------------------------
(* ThreadPool::execute and the accept loop of main *)

\* execute that calls the closure itself instead of sending it.
execute_inline ==
    /\ queue' = queue
    /\ jobs' = Append(jobs, [FreshJob("done") EXCEPT !.runs = 1,
                                                     !.runner = Caller,
                                                     !.written = 1])
    /\ mainPc' = "accept"
    /\ UNCHANGED <<workers, lock>>

\* execute with self.sender.send(..).unwrap(): an Err panics the caller.
execute_unwrap ==
    /\ IF ReceiverAlive
       THEN /\ queue' = Append(queue, NewJob(submitted + 1))
            /\ jobs' = Append(jobs, FreshJob("queued"))
            /\ mainPc' = "accept"
       ELSE /\ queue' = queue
            /\ jobs' = Append(jobs, FreshJob("rejected"))
            /\ mainPc' = "drop_send"
    /\ UNCHANGED <<workers, lock>>

\* execute on a channel that hands out the newest message first.
execute_push_front ==
    /\ IF ReceiverAlive
       THEN /\ queue' = <<NewJob(submitted + 1)>> \o queue
            /\ jobs' = Append(jobs, FreshJob("queued"))
       ELSE /\ queue' = queue
            /\ jobs' = Append(jobs, FreshJob("rejected"))
    /\ mainPc' = "accept"
    /\ UNCHANGED <<workers, lock>>

\* self.sender.send(Message::NewJob(job)): an Err is logged, nothing else.
execute ==
    /\ IF ReceiverAlive
       THEN /\ queue' = Append(queue, NewJob(submitted + 1))
            /\ jobs' = Append(jobs, FreshJob("queued"))
       ELSE /\ queue' = queue
            /\ jobs' = Append(jobs, FreshJob("rejected"))
    /\ mainPc' = "accept"
    /\ UNCHANGED <<workers, lock>>

\* listener.incoming() yields Ok(stream): pool.execute(handle_connection).
AcceptOk(maxJobs) ==
    /\ mainPc = "accept"
    /\ submitted < maxJobs
    /\ execute
    /\ UNCHANGED <<size, chan, sendIdx, termSent, joinIdx, joinErrs, acceptErrs,
                   liveAtDrop>>

\* listener.incoming() yields Err: stream.unwrap() panics, and the unwinding
\* of main drops the pool.
AcceptErr ==
    /\ mainPc = "accept"
    /\ acceptErrs' = acceptErrs + 1
    /\ mainPc' = "drop_send"
    /\ liveAtDrop' = LiveWorkers
    /\ UNCHANGED <<size, chan, queue, workers, lock, sendIdx, termSent,
                   joinIdx, joinErrs, jobs>>

----------------------------------------------------------------------------
(* Drop for ThreadPool *)

\* A Terminate that jumps the queue: it is read before the jobs sent earlier.
DropSendFront ==
    /\ mainPc = "drop_send"
    /\ sendIdx < NumWorkers
    /\ sendIdx' = sendIdx + 1
    /\ IF ReceiverAlive
       THEN /\ queue' = <<Terminate>> \o queue
            /\ termSent' = termSent + 1
       ELSE UNCHANGED <<queue, termSent>>
    /\ UNCHANGED <<mainPc, size, chan, workers, lock, joinIdx, joinErrs, jobs,
                   acceptErrs,
                   liveAtDrop>>

\* One iteration of the first loop: self.sender.send(Message::Terminate).
DropSend ==
    /\ mainPc = "drop_send"
    /\ sendIdx < NumWorkers
    /\ sendIdx' = sendIdx + 1
    /\ IF ReceiverAlive
       THEN /\ queue' = Append(queue, Terminate)
            /\ termSent' = termSent + 1
       ELSE UNCHANGED <<queue, termSent>>
    /\ UNCHANGED <<mainPc, size, chan, workers, lock, joinIdx, joinErrs, jobs,
                   acceptErrs,
                   liveAtDrop>>

\* The first loop is over: "Shutting down all workers".
DropSendDone ==
    /\ mainPc = "drop_send"
    /\ sendIdx = NumWorkers
    /\ mainPc' = "drop_join"
    /\ UNCHANGED <<size, chan, queue, workers, lock, sendIdx, termSent,
                   joinIdx, joinErrs, jobs, acceptErrs,
                   liveAtDrop>>

\* The second loop with thread.join().unwrap(): the Err of a panicked worker
\* panics inside drop, which aborts the unwinding process.
DropJoinUnwrap ==
    /\ mainPc = "drop_join"
    /\ joinIdx < NumWorkers
    /\ ~Live(joinIdx)
    /\ IF workers[joinIdx].state = "panicked"
       THEN mainPc' = "aborted" /\ UNCHANGED <<joinIdx, joinErrs>>
       ELSE mainPc' = mainPc /\ joinIdx' = joinIdx + 1 /\ joinErrs' = joinErrs
    /\ UNCHANGED <<size, chan, queue, workers, lock, sendIdx, termSent,
                   jobs, acceptErrs, liveAtDrop>>

\* One iteration of the second loop: worker.thread.take() and thread.join(),
\* which returns once the thread has ended, with Err when it panicked.
DropJoin ==
    /\ mainPc = "drop_join"
    /\ joinIdx < NumWorkers
    /\ ~Live(joinIdx)
    /\ joinIdx' = joinIdx + 1
    /\ joinErrs' = IF workers[joinIdx].state = "panicked"
                   THEN joinErrs \cup {joinIdx} ELSE joinErrs
    /\ UNCHANGED <<mainPc, size, chan, queue, workers, lock, sendIdx, termSent,
                   jobs, acceptErrs,
                   liveAtDrop>>

\* drop returns; the process ends.
DropReturn ==
    /\ mainPc = "drop_join"
    /\ joinIdx = NumWorkers
    /\ mainPc' = "exited"
    /\ UNCHANGED <<size, chan, queue, workers, lock, sendIdx, termSent,
                   joinIdx, joinErrs, jobs, acceptErrs,
                   liveAtDrop>>

----------------------------------------------------------------------------
(* The worker threads: the loop of Worker::new running handle_connection *)

\* The jobs still in a queue.
QueuedJobs(q) == {q[i].job : i \in {k \in 1..Len(q) : q[k].type = "NewJob"}}

\* Worker w's thread ends in state `st`, with its current job (if any) set to
\* `job`. Its Arc of the Receiver goes; when it was the last, the Receiver is
\* dropped and with it the messages still in the channel.
ThreadEnds(w, st, js, q) ==
    LET last == LiveWorkers = {w} /\ mainPc \notin {"new_channel", "new_spawn"}
    IN /\ workers' = [workers EXCEPT ![w] = [FreshWorker EXCEPT !.state = st]]
       /\ queue' = IF last THEN <<>> ELSE q
       /\ jobs' = IF last
                  THEN [j \in DOMAIN js |->
                           IF j \in QueuedJobs(q)
                           THEN [js[j] EXCEPT !.st = "discarded"] ELSE js[j]]
                  ELSE js

\* A panic in the job unwinds the thread of worker w.
Panic(w, cause) ==
    /\ ThreadEnds(w, "panicked",
                  [jobs EXCEPT ![workers[w].job].st = "panicked",
                               ![workers[w].job].failed = cause],
                  queue)
    /\ UNCHANGED <<mainPc, size, chan, lock, sendIdx, termSent, joinIdx,
                   joinErrs, acceptErrs,
                   liveAtDrop>>

\* receiver.lock().unwrap()
WorkerLock(w) ==
    /\ workers[w].state = "idle"
    /\ lock = NoOne
    /\ lock' = w
    /\ workers' = [workers EXCEPT ![w].state = "recv"]
    /\ UNCHANGED <<mainPc, size, chan, queue, sendIdx, termSent, joinIdx,
                   joinErrs, jobs, acceptErrs,
                   liveAtDrop>>

\* A receive that leaves the message in the channel.
recv_peek(q) == q

\* .recv().unwrap() returns the oldest message; the guard is dropped at the
\* end of the statement, before the match.
recv(q) == Tail(q)

\* A Terminate arm without its break: the loop goes round again.
terminate_arm_no_break == "idle"

\* Message::Terminate => break: the loop ends and with it the thread.
terminate_arm == "terminated"

\* A guard bound to a name that lives as long as the loop body.
guard_kept(w) == w

\* The MutexGuard of `receiver.lock().unwrap()` is a temporary of the let
\* statement: it is dropped when the statement ends, before the match.
guard_after_recv(w) == NoOne

WorkerRecv(w) ==
    /\ workers[w].state = "recv"
    /\ lock = w
    /\ queue # <<>>
    /\ lock' = guard_after_recv(w)
    /\ LET message == Head(queue)
       IN IF message.type = "NewJob"
          THEN /\ workers' = [workers EXCEPT ![w].state = "read",
                                             ![w].job = message.job]
               /\ queue' = recv(queue)
               /\ jobs' = [jobs EXCEPT
                    ![message.job].st = "running",
                    ![message.job].dequeued = @ + 1,
                    ![message.job].runs = @ + 1,
                    ![message.job].runner = w]
          ELSE ThreadEnds(w, terminate_arm, jobs, recv(queue))
    /\ UNCHANGED <<mainPc, size, chan, sendIdx, termSent, joinIdx, joinErrs,
                   acceptErrs,
                   liveAtDrop>>

\* stream.read(&mut buffer) succeeds; the request line is parsed and routed.
\* A handler with a backend call awaits it, the others have their response.
WorkerRead(w, requests) ==
    /\ workers[w].state = "read"
    /\ \E r \in requests :
          workers' = [workers EXCEPT
              ![w].request = r,
              ![w].handler = Route(parse_request_line(r)[1],
                                   parse_request_line(r)[2]),
              ![w].state = IF BackendCall(r) = "none" THEN "write" ELSE "await",
              ![w].response = IF BackendCall(r) = "none"
                              THEN Respond(r, "NoCall") ELSE NoResponse]
    /\ UNCHANGED <<mainPc, size, chan, queue, lock, sendIdx, termSent, joinIdx,
                   joinErrs, jobs, acceptErrs,
                   liveAtDrop>>

\* stream.read(..).unwrap() on an Err
WorkerReadFails(w) ==
    /\ workers[w].state = "read"
    /\ Panic(w, "read")

\* The awaited backend call resolves and the handler returns its response.
WorkerResolve(w) ==
    /\ workers[w].state = "await"
    /\ \E result \in BackendResults(BackendCall(workers[w].request)) :
          workers' = [workers EXCEPT
              ![w].result = result,
              ![w].response = Respond(workers[w].request, result),
              ![w].state = "write"]
    /\ UNCHANGED <<mainPc, size, chan, queue, lock, sendIdx, termSent, joinIdx,
                   joinErrs, jobs, acceptErrs,
                   liveAtDrop>>

\* A write that does not wait for the handler: the backend call is left
\* running and whatever response there is goes out.
WorkerWriteEarly(w) ==
    /\ workers[w].state \in {"await", "write"}
    /\ workers' = [workers EXCEPT ![w].state = "flush"]
    /\ jobs' = [jobs EXCEPT ![workers[w].job].written = @ + 1]
    /\ UNCHANGED <<mainPc, size, chan, queue, lock, sendIdx, termSent, joinIdx,
                   joinErrs, acceptErrs, liveAtDrop>>

\* stream.write(response.as_bytes()) succeeds
WorkerWrite(w) ==
    /\ workers[w].state = "write"
    /\ workers' = [workers EXCEPT ![w].state = "flush"]
    /\ jobs' = [jobs EXCEPT ![workers[w].job].written = @ + 1]
    /\ UNCHANGED <<mainPc, size, chan, queue, lock, sendIdx, termSent, joinIdx,
                   joinErrs, acceptErrs,
                   liveAtDrop>>

\* stream.write(..).unwrap() on an Err
WorkerWriteFails(w) ==
    /\ workers[w].state = "write"
    /\ Panic(w, "write")

\* stream.flush() succeeds, handle_connection returns and the loop goes round.
WorkerFlush(w) ==
    /\ workers[w].state = "flush"
    /\ workers' = [workers EXCEPT ![w] = FreshWorker]
    /\ jobs' = [jobs EXCEPT ![workers[w].job].st = "done"]
    /\ UNCHANGED <<mainPc, size, chan, queue, lock, sendIdx, termSent, joinIdx,
                   joinErrs, acceptErrs,
                   liveAtDrop>>

\* stream.flush().unwrap() on an Err
WorkerFlushFails(w) ==
    /\ workers[w].state = "flush"
    /\ Panic(w, "flush")

\* The steps of worker w's thread that need no failure of its connection.
WorkerRuns(w, requests) ==
    \/ WorkerLock(w)
    \/ WorkerRecv(w)
    \/ WorkerRead(w, requests)
    \/ WorkerResolve(w)
    \/ WorkerWrite(w)
    \/ WorkerFlush(w)

WorkerFails(w) ==
    \/ WorkerReadFails(w)
    \/ WorkerWriteFails(w)
    \/ WorkerFlushFails(w)

MainRuns ==
    \/ NewAssert
    \/ NewChannel
    \/ NewSpawn
    \/ NewReturn
    \/ DropSend
    \/ DropSendDone
    \/ DropJoin
    \/ DropReturn

----------------------------------------------------------------------------
(* Specifications *)

NextWith(requests, maxJobs) ==
    \/ MainRuns
    \/ AcceptOk(maxJobs)
    \/ AcceptErr
    \/ \E w \in WorkerIds : WorkerRuns(w, requests)
    \/ \E w \in WorkerIds : WorkerFails(w)

Next == NextWith(PoolRequests, MaxJobs)

Spec == Init /\ [][Next]_vars

\* The threads are scheduled fairly: a thread that can take a step takes one.
\* Nothing obliges a client to connect or an I/O call to fail.
Fairness ==
    /\ WF_vars(MainRuns)
    /\ \A w \in 0..(MaxSize - 1) :
          WF_vars(w \in WorkerIds /\ WorkerRuns(w, PoolRequests))

\* The liveness checks run over fewer connections than the safety checks.
FairJobs == 2

FairNext == NextWith(PoolRequests, FairJobs)

FairSpec == Init /\ [][FairNext]_vars /\ Fairness

\* One connection handled by a pool of one worker, over every request.
HandleJobs == 1

HandleInit == Init /\ size = 1

HandleNext == NextWith(Requests, HandleJobs)

HandleSpec == HandleInit /\ [][HandleNext]_vars

----------------------------------------------------------------------------
(* Claims *)

\* C1: no job is dequeued or executed by more than one worker or more than
\* once: every submitted job has been taken from the queue at most once, has
\* been started at most once, is held by at most one worker, and is no longer
\* in the queue once taken.
NoDoubleDequeue ==
    \A j \in JobIds :
        /\ jobs[j].dequeued <= 1
        /\ jobs[j].runs <= 1
        /\ Cardinality({w \in WorkerIds : workers[w].job = j}) <= 1
        /\ Cardinality({i \in 1..Len(queue) : queue[i] = NewJob(j)})
             + jobs[j].dequeued <= 1

\* C1's case: more jobs than workers, all of them run to the end, by two
\* workers.
NoDoubleDequeueWitness ==
    /\ size = 2
    /\ submitted = 3
    /\ \A j \in JobIds : jobs[j].st = "done" /\ jobs[j].dequeued = 1
    /\ \E i, j \in JobIds : jobs[i].runner # jobs[j].runner

\* C2: every job passed to execute is eventually dequeued and executed by
\* some worker: under fair scheduling each submitted job is eventually run.
EveryJobRuns ==
    \A j \in 1..FairJobs :
        (j \in JobIds) ~> (j \in JobIds /\ jobs[j].runs >= 1)

\* C3: a job that panics does not take its worker out of service: while the
\* pool is alive all N workers are live, and the worker that ran a panicked
\* job is still in its loop.
PanicKeepsCapacity ==
    /\ mainPc = "accept" => Cardinality(LiveWorkers) = size
    /\ \A w \in WorkerIds : workers[w].state # "panicked"

\* C4: Drop sends exactly N Terminate messages, all of them before the first
\* join, then joins the workers in order; when it returns every worker thread
\* has left its loop and has been joined.
TeardownSendsThenJoins ==
    /\ mainPc \in {"drop_join", "exited"} =>
          sendIdx = NumWorkers /\ termSent = NumWorkers
    /\ joinIdx > 0 => mainPc \in {"drop_join", "exited"}
    /\ \A w \in WorkerIds : w < joinIdx => ~Live(w)
    /\ mainPc = "exited" => joinIdx = NumWorkers /\ LiveWorkers = {}

\* C5: ThreadPool::new(0) panics before the channel exists and before any
\* worker is spawned, and no pool comes of it; for N > 0 it does not panic
\* and the pool it returns has exactly the N workers 0..N-1.
NewChecksSizeFirst ==
    /\ size = 0 => /\ ~chan
                   /\ WorkerIds = {}
                   /\ mainPc \in {"new_assert", "new_panicked"}
    /\ mainPc = "new_panicked" => size = 0
    /\ mainPc \notin {"new_assert", "new_panicked", "new_channel", "new_spawn"}
          => size > 0 /\ chan /\ WorkerIds = 0..(size - 1)

\* C5's case: new(0) has panicked.
NewChecksSizeFirstWitness ==
    /\ mainPc = "new_panicked"
    /\ size = 0
    /\ ~chan
    /\ NumWorkers = 0

\* C6: execute is fire-and-forget: a call only appends the job to the queue
\* (or drops it when the channel is closed) and returns to the caller; the
\* job has not started when it returns, no worker is touched, and no job is
\* ever run by the calling thread.
ExecuteFireAndForget ==
    /\ [][submitted' > submitted =>
            /\ submitted' = submitted + 1
            /\ mainPc' = "accept"
            /\ workers' = workers
            /\ lock' = lock
            /\ \A j \in JobIds : jobs'[j] = jobs[j]
            /\ \/ /\ jobs'[submitted'] = FreshJob("queued")
                  /\ queue' = Append(queue, NewJob(submitted'))
               \/ /\ jobs'[submitted'] = FreshJob("rejected")
                  /\ queue' = queue]_vars
    /\ [](\A j \in JobIds : jobs[j].runner # Caller)

\* C6's case: execute has returned while every worker is busy with another
\* job and the job it queued has not started.
ExecuteFireAndForgetWitness ==
    /\ mainPc = "accept"
    /\ size = 2
    /\ \A w \in WorkerIds : workers[w].state \in {"read", "await", "write", "flush"}
    /\ submitted = 3
    /\ queue = <<NewJob(3)>>
    /\ jobs[3].runs = 0

\* C7: execute on a closed queue drops the submission: it returns normally,
\* the workers and the queue are as they were, and the job is never dequeued
\* or executed.
ClosedQueueDropsJob ==
    /\ [][(submitted' > submitted /\ ~ReceiverAlive) =>
            /\ mainPc' = "accept"
            /\ workers' = workers
            /\ lock' = lock
            /\ queue' = queue
            /\ jobs'[submitted'].st = "rejected"]_vars
    /\ [](\A j \in JobIds : jobs[j].st = "rejected" =>
             /\ jobs[j].dequeued = 0
             /\ jobs[j].runs = 0
             /\ j \notin QueuedJobs(queue))
    /\ [][\A j \in JobIds : jobs[j].st = "rejected" => jobs'[j] = jobs[j]]_vars

\* C7's case: no worker is left, execute was called and has returned.
ClosedQueueDropsJobWitness ==
    /\ mainPc = "accept"
    /\ size = 2
    /\ LiveWorkers = {}
    /\ \E j \in JobIds : jobs[j].st = "rejected"

\* C8: a failed accept does not stop the acceptor loop: after an accept
\* failure the acceptor is still accepting.
AcceptFailureKeepsAccepting ==
    acceptErrs > 0 => mainPc = "accept"

\* C9: for POST, PUT and DELETE on a resource, when the body parses and
\* validates and the backend call fails, the response is 500 with a
\* non-empty body.
BackendFailureIs500 ==
    \A w \in WorkerIds :
        LET mp == parse_request_line(workers[w].request)
        IN (/\ workers[w].state \in {"write", "flush"}
            /\ mp[1] \in {"POST", "PUT", "DELETE"}
            /\ Routed(mp[1], mp[2])
            /\ BackendCall(workers[w].request) # "none"
            /\ workers[w].result = "Err")
           => /\ workers[w].response.status = 500
              /\ workers[w].response.contents # <<>>

\* C10: a read, write or flush failure on a connection is not fatal to the
\* pool: the worker that ran the job is still in its loop.
IoFailureKeepsWorker ==
    \A j \in JobIds :
        jobs[j].failed \in {"read", "write", "flush"} =>
            Live(jobs[j].runner)

\* The workers that have read the request of their connection.
Handling == {w \in WorkerIds : workers[w].state \in {"await", "write", "flush"}}

\* C11: routing is total and exact: each of the 12 pairs of GET, POST, PUT,
\* DELETE with /api/movies, /api/actors, /api/reviews goes to the handler
\* written for that verb and resource; every other (method, path), the pair
\* ("", "") of a request line with fewer than two tokens included, gets the
\* 404 response, with no resource handler invoked, no backend call and no
\* failure.
RoutingTotalExact ==
    \A w \in Handling :
        LET line == workers[w].request.line
            method == IF Len(line) >= 2 THEN line[1] ELSE ""
            path == IF Len(line) >= 2 THEN line[2] ELSE ""
            verbs == [GET |-> "handle_get", POST |-> "handle_post",
                      PUT |-> "handle_put", DELETE |-> "handle_delete"]
            resources == ("/api/movies" :> "movies") @@ ("/api/actors" :> "actors")
                         @@ ("/api/reviews" :> "reviews")
        IN IF method \in DOMAIN verbs /\ path \in DOMAIN resources
           THEN /\ workers[w].handler = <<verbs[method], resources[path]>>
                /\ workers[w].state \in {"write", "flush"} =>
                      workers[w].response.status \in {200, 201, 400, 500}
           ELSE /\ workers[w].handler = <<"handle_404", "">>
                /\ workers[w].state \in {"write", "flush"}
                /\ workers[w].result = "none"
                /\ workers[w].response =
                      [status |-> 404, contents |-> <<"404 - Not Found">>]

\* C11's case: a request line with fewer than two tokens has been routed and
\* its 404 response is about to be written.
RoutingTotalExactWitness ==
    \E w \in WorkerIds :
        /\ workers[w].state = "write"
        /\ Len(workers[w].request.line) = 1
        /\ workers[w].response.status = 404

GetRendersCollection ==
    \A w \in Handling :
        (workers[w].handler[1] = "handle_get" /\ workers[w].state # "await") =>
            LET res == workers[w].handler[2]
                response == workers[w].response
            IN /\ workers[w].result \in {"Null", "Ok", "Err"}
               /\ workers[w].result = "Null" =>
                     response = [status |-> 200, contents |-> <<"[]">>]
               /\ workers[w].result = "Ok" =>
                     response = [status |-> 200, contents |-> <<"data of ", res>>]
               /\ workers[w].result = "Err" => response.status = 500

\* C13's case: GET /api/movies on an absent collection has its response.
GetRendersCollectionWitness ==
    \E w \in WorkerIds :
        /\ workers[w].state = "write"
        /\ workers[w].handler = <<"handle_get", "movies">>
        /\ workers[w].result = "Null"
        /\ workers[w].response.contents = <<"[]">>

\* The workers that are executing a job.
Executing == {w \in WorkerIds : workers[w].state \in {"read", "await", "write", "flush"}}

\* C14: a worker that is executing a job does not hold the receive lock: the
\* lock is held only by a worker waiting in recv, so whenever a job is queued
\* and some worker is not executing, a worker can take the lock or dequeue,
\* and the acceptor can submit.
LockFreeWhileExecuting ==
    /\ \A w \in Executing : lock # w
    /\ lock # NoOne => lock \in WorkerIds /\ workers[lock].state = "recv"
    /\ (queue # <<>> /\ \E w \in WorkerIds : workers[w].state \in {"idle", "recv"})
          => ENABLED (\E w \in WorkerIds : WorkerLock(w) \/ WorkerRecv(w))
    /\ (mainPc = "accept" /\ submitted < MaxJobs) => ENABLED AcceptOk(MaxJobs)

\* C14's case: worker 0 is stalled on the backend call of job 1 and worker 1
\* has meanwhile taken job 2 and is about to finish it.
LockFreeWhileExecutingWitness ==
    /\ WorkerIds = {0, 1}
    /\ workers[0].state = "await" /\ workers[0].job = 1
    /\ workers[1].state = "flush" /\ workers[1].job = 2
    /\ mainPc = "accept"

\* The Terminate messages still in the queue.
QueuedTerminates == {i \in 1..Len(queue) : queue[i].type = "Terminate"}

\* The workers that have consumed a Terminate message: each left its loop on
\* the one it took.
Terminated == {w \in WorkerIds : workers[w].state = "terminated"}

\* C15: when all N workers were running at the start of teardown, each of the
\* N Terminate messages is consumed by exactly one worker and each worker
\* consumes exactly one, so that after teardown none is left over.
TerminateConsumedOnce ==
    (mainPc = "exited" /\ liveAtDrop = WorkerIds) =>
        /\ termSent = NumWorkers
        /\ Cardinality(Terminated) = termSent
        /\ QueuedTerminates = {}

\* C16: Terminated is final: the worker that dequeues a Terminate message
\* leaves its loop, and from then on its thread does nothing: it takes no
\* lock, dequeues nothing and runs no job, whatever is or gets in the queue.
TerminatedIsFinal ==
    /\ [][\A w \in WorkerIds :
            (/\ lock = w
             /\ lock' # w
             /\ queue # <<>>
             /\ Head(queue).type = "Terminate")
            => workers'[w].state = "terminated"]_vars
    /\ [][\A w \in Terminated :
            /\ workers'[w] = workers[w]
            /\ lock' # w
            /\ \A j \in DOMAIN jobs' :
                  jobs'[j].runner = w => j \in JobIds /\ jobs[j].runner = w]_vars

\* C16's case: a worker has terminated while messages are still queued and
\* another worker is executing a job.
TerminatedIsFinalWitness ==
    /\ Terminated # {}
    /\ queue # <<>>
    /\ Executing # {}

\* C17: the jobs of the one producer are dequeued in submission order: a job
\* has been removed from the queue only if every job submitted before it has
\* been, and the jobs waiting in the queue wait in submission order.
DequeuedInSubmissionOrder ==
    /\ \A a, b \in JobIds :
          (a < b /\ jobs[b].dequeued >= 1) => jobs[a].dequeued >= 1
    /\ \A i, k \in 1..Len(queue) :
          (i < k /\ queue[i].type = "NewJob" /\ queue[k].type = "NewJob")
             => queue[i].job < queue[k].job

\* C17's case: job 1 was dequeued before job 2, by another worker, and job 2
\* has completed while job 1 is still running.
DequeuedInSubmissionOrderWitness ==
    /\ submitted >= 2
    /\ jobs[1].st = "running"
    /\ jobs[2].st = "done"
    /\ jobs[1].runner # jobs[2].runner

\* The jobs a worker is executing.
RunningJobs == {j \in JobIds : jobs[j].st = "running"}

\* C18: a pool built with size N never has more than N worker threads; each
\* worker executes at most one job and each executing job has one worker, so
\* at most N jobs execute at a time; once new has returned no step creates a
\* worker.
PoolSizeBounded ==
    /\ [](/\ NumWorkers <= size
          /\ Cardinality(LiveWorkers) <= size
          /\ Cardinality(RunningJobs) <= size
          /\ \A j \in RunningJobs :
                Cardinality({w \in Executing : workers[w].job = j}) = 1
          /\ \A w \in Executing : workers[w].job \in RunningJobs)
    /\ [][mainPc \notin {"new_assert", "new_channel", "new_spawn"}
             => DOMAIN workers' = DOMAIN workers]_vars

\* C18's case: both workers of a pool of two wait on a backend call while a
\* third job waits in the queue.
PoolSizeBoundedWitness ==
    /\ size = 2
    /\ Cardinality(RunningJobs) = 2
    /\ \A w \in WorkerIds : workers[w].state = "await"
    /\ QueuedJobs(queue) # {}

\* C19: within a handling job the response is written only after the backend
\* call of the request has resolved: nothing is written while the call is
\* pending, what is written is the response the resolved call gave, and a
\* connection gets at most one response, exactly one when its job returns.
ResponseAfterBackend ==
    /\ \A w \in WorkerIds :
          /\ workers[w].state \in {"read", "await"} =>
                /\ jobs[workers[w].job].written = 0
                /\ workers[w].response = NoResponse
          /\ workers[w].state = "write" => jobs[workers[w].job].written = 0
          /\ workers[w].state = "flush" => jobs[workers[w].job].written = 1
          /\ (/\ workers[w].state \in {"write", "flush"}
              /\ workers[w].handler[1] # "handle_404") =>
                /\ workers[w].result \in {"Ok", "Null", "Err"} \/
                      workers[w].response.status = 400
                /\ workers[w].response =
                      Respond(workers[w].request, workers[w].result)
          /\ (/\ workers[w].state = "flush"
              /\ BackendCall(workers[w].request) # "none") =>
                workers[w].result \in {"Ok", "Null", "Err"}
    /\ \A j \in JobIds :
          /\ jobs[j].written <= 1
          /\ jobs[j].st = "done" => jobs[j].written = 1

\* C19's case: the update of a PUT has resolved and its response has been
\* written, once.
ResponseAfterBackendWitness ==
    \E w \in WorkerIds :
        /\ workers[w].state = "flush"
        /\ workers[w].handler[1] = "handle_put"
        /\ workers[w].result = "Ok"
        /\ jobs[workers[w].job].written = 1

\* C20: teardown terminates also when workers have died of a failed job:
\* Drop runs its whole Terminate loop, so that every worker still in its loop
\* has a Terminate to read; the join of a panicked worker returns Err, is
\* recorded and skipped; the other workers are joined; and under fair
\* scheduling Drop returns.
TeardownTerminates ==
    /\ (mainPc = "drop_send") ~> (mainPc = "exited")
    /\ [](mainPc = "drop_join" =>
            /\ sendIdx = NumWorkers
            /\ Cardinality(LiveWorkers) <= Cardinality(QueuedTerminates)
            /\ joinErrs = {w \in WorkerIds :
                             w < joinIdx /\ workers[w].state = "panicked"})
    /\ [](mainPc = "exited" =>
            /\ joinIdx = NumWorkers
            /\ LiveWorkers = {}
            /\ joinErrs = {w \in WorkerIds : workers[w].state = "panicked"})

\* C20's case: worker 0 had died of a failed job before Drop began, its join
\* failed, worker 1 read its Terminate and was joined, and Drop has returned.
TeardownTerminatesWitness ==
    /\ mainPc = "exited"
    /\ liveAtDrop = {1}
    /\ joinErrs = {0}
    /\ Terminated = {1}

\* C21: teardown drains the queue. As long as no job has failed, the
\* Terminate messages are behind every job in the channel, a worker that is
\* about to read a message has finished the job it had, and when Drop has
\* returned every job given to execute has been dequeued once and has run to
\* completion.
TeardownDrainsQueue ==
    (\A j \in JobIds : jobs[j].failed = "none") =>
        /\ \A i, k \in 1..Len(queue) :
              (i < k /\ queue[i].type = "Terminate")
              => queue[k].type = "Terminate"
        /\ \A w \in WorkerIds :
              workers[w].state \in {"idle", "recv", "terminated"} =>
                /\ workers[w].job = NoJob
                /\ \A j \in JobIds : jobs[j].runner = w => jobs[j].st = "done"
        /\ mainPc = "exited" =>
              \A j \in JobIds : /\ jobs[j].st = "done"
                                /\ jobs[j].dequeued = 1
                                /\ jobs[j].runs = 1

\* C21's case: teardown began with both workers in their loop, and Drop has
\* returned with the three jobs done and both workers terminated.
TeardownDrainsQueueWitness ==
    /\ mainPc = "exited"
    /\ liveAtDrop = {0, 1}
    /\ Terminated = {0, 1}
    /\ submitted = 3
    /\ \A j \in JobIds : jobs[j].st = "done"

\* C22: the body handed to a POST, PUT or DELETE handler is everything in
\* the request after the first blank-line separator, also when that text
\* holds a further separator, and a request without a separator has no
\* body; so the handler awaits the backend call, and returns the response,
\* that this text gives.
BodyIsRestOfRequest ==
    \A w \in Handling :
        workers[w].handler[1] \in {"handle_post", "handle_put", "handle_delete"}
        => LET request == workers[w].request
               res == workers[w].handler[2]
               text == request.text
               seps == {k \in 1..Len(text) : text[k] = Separator}
               first == CHOOSE k \in seps : \A l \in seps : k <= l
               rest == IF seps = {} THEN None
                       ELSE Some(SubSeq(text, first + 1, Len(text)))
               call == CASE workers[w].handler[1] = "handle_post" ->
                                post_call(res, rest)
                         [] workers[w].handler[1] = "handle_put" ->
                                put_call(res, rest)
                         [] workers[w].handler[1] = "handle_delete" ->
                                delete_call(res, rest)
           IN /\ body_of(request) = rest
              /\ (workers[w].state = "await" \/ workers[w].result # "none")
                    = (call # "none")

====
